---- MODULE Spec2Model ----
(***************************************************************************)
(* A model of firma's offline commands:                                    *)
(*   - lib/src/offline/dice.rs  : master key from dice launches            *)
(*   - lib/src/offline/print.rs : pretty printer / privacy analysis of a   *)
(*                                PSBT                                      *)
(* One invocation of a function is one action; `call` holds the arguments, *)
(* `ret` what the invocation produced.                                     *)
(***************************************************************************)
EXTENDS Integers, Sequences, FiniteSets, TLC

VARIABLES call, ret, last, pc, keys, overflow_checks

vars == <<call, ret, last, pc, keys, overflow_checks>>

\* no result yet
NoResult == [tag |-> "None"]

\* Option<T>
None == <<>>
Some(x) == <<x>>

(***************************************************************************)
(* Bounds of the model.                                                    *)
(***************************************************************************)
\* required_dice_launches is tried with every ceiling 1..MaxCeil
MaxCeil == 40
\* ... and every number of faces 2..MaxFaces (besides the dice of Base)
MaxFaces == 7
\* multiply_dice_launches is tried with every sequence of 1..MaxLen launches
MaxLen == 4
\* ... of every value for dice of up to MaxAllFaces faces, of the two lowest
\* and the two highest values for the bigger dice
MaxAllFaces == 6
\* roll is tried with count-LenSlack .. count+LenSlack launches
LenSlack == 1
\* pretty_print is tried with transactions of up to MaxInputs inputs
MaxInputs == 2
\* ... and of 1..MaxOutputs outputs
MaxOutputs == 2

(***************************************************************************)
(* num_bigint::BigUint: an arbitrary precision natural number, kept as its *)
(* limbs, least significant first, without leading zero limbs.             *)
(***************************************************************************)
LIMB == 65536

RECURSIVE BigFromU32(_)
BigFromU32(n) ==
    IF n = 0 THEN <<>> ELSE <<n % LIMB>> \o BigFromU32(n \div LIMB)

RECURSIVE BigMulCarry(_, _, _)
BigMulCarry(a, m, carry) ==
    IF a = <<>> THEN BigFromU32(carry)
    ELSE LET t == Head(a) * m + carry
         IN  <<t % LIMB>> \o BigMulCarry(Tail(a), m, t \div LIMB)

RECURSIVE BigNorm(_)
BigNorm(a) ==
    IF a = <<>> THEN <<>>
    ELSE IF a[Len(a)] = 0 THEN BigNorm(SubSeq(a, 1, Len(a) - 1))
    ELSE a

\* BigUint *= u32
BigMulSmall(a, m) == BigNorm(BigMulCarry(a, m, 0))

RECURSIVE BigAddCarry(_, _)
BigAddCarry(a, carry) ==
    IF carry = 0 THEN a
    ELSE IF a = <<>> THEN BigFromU32(carry)
    ELSE LET t == Head(a) + carry
         IN  <<t % LIMB>> \o BigAddCarry(Tail(a), t \div LIMB)

\* BigUint += u32
BigAddSmall(a, d) == BigAddCarry(a, d)

RECURSIVE BigGtFrom(_, _, _)
BigGtFrom(a, b, i) ==
    IF i = 0 THEN FALSE
    ELSE IF a[i] # b[i] THEN a[i] > b[i]
    ELSE BigGtFrom(a, b, i - 1)

\* BigUint > BigUint
BigGt(a, b) ==
    IF Len(a) # Len(b) THEN Len(a) > Len(b) ELSE BigGtFrom(a, b, Len(a))

\* BigUint::from(1u32) << n
BigOneShl(n) ==
    [i \in 1..(n \div 16 + 1) |-> IF i = n \div 16 + 1 THEN 2 ^ (n % 16) ELSE 0]

RECURSIVE BigDivFrom(_, _, _, _)
BigDivFrom(a, d, i, r) ==
    IF i = 0 THEN [q |-> <<>>, r |-> r]
    ELSE LET cur  == r * LIMB + a[i]
             rest == BigDivFrom(a, d, i - 1, cur % d)
         IN  [q |-> rest.q \o <<cur \div d>>, r |-> rest.r]

\* quotient and remainder of a BigUint by a u32, long division from the most
\* significant limb down
BigDivRem(a, d) ==
    LET x == BigDivFrom(a, d, Len(a), 0) IN [q |-> BigNorm(x.q), r |-> x.r]

\* the digits of a BigUint in base d, most significant first; zero is <<0>>
RECURSIVE BigDigits(_, _)
BigDigits(a, d) ==
    IF a = <<>> THEN <<>>
    ELSE LET x == BigDivRem(a, d) IN BigDigits(x.q, d) \o <<x.r>>

\* BigUint::to_bytes_be: the minimal big-endian bytes
to_bytes_be(a) == IF a = <<>> THEN <<0>> ELSE BigDigits(a, 256)

\* BigUint::to_string: the decimal digits
to_string(a) == IF a = <<>> THEN <<0>> ELSE BigDigits(a, 10)

(***************************************************************************)
(* dice.rs                                                                 *)
(***************************************************************************)
\* enum Base: the dice (and the coin)
Base == {2, 4, 6, 8, 12, 20}

\* enum Bits: the bits of entropy
Bits == {128, 192, 256}

\* impl From<Bits> for BigUint
BitsInto(bits) == BigOneShl(bits)

\* Result<R>: Ok(v), Err(e); a panic (an abort of the call) beside them
Ok(v) == [tag |-> "Ok", val |-> v]
Err(e) == [tag |-> "Err", err |-> e]
Panic(m) == [tag |-> "Panic", msg |-> m]

\* required_iter returning count instead of count - 1
required_iter_returns_count(faces, max, s) ==
    IF s.returned THEN s
    ELSE LET count == s.count + 1
             acc   == BigMulSmall(s.acc, faces)
         IN  IF BigGt(acc, max)
             THEN [count |-> count, acc |-> acc, returned |-> TRUE, ret |-> count]
             ELSE [count |-> count, acc |-> acc, returned |-> FALSE, ret |-> 0]

\* one iteration of required_dice_launches' loop; s.returned once the loop
\* has returned s.ret
required_iter(faces, max, s) ==
    IF s.returned THEN s
    ELSE LET count == s.count + 1
             acc   == BigMulSmall(s.acc, faces)
         IN  IF BigGt(acc, max)
             THEN [count |-> count, acc |-> acc, returned |-> TRUE, ret |-> count - 1]
             ELSE [count |-> count, acc |-> acc, returned |-> FALSE, ret |-> 0]

\* n iterations of the loop, the first half of them before the second
RECURSIVE required_iters(_, _, _, _)
required_iters(faces, max, s, n) ==
    IF n = 1 THEN required_iter(faces, max, s)
    ELSE LET half == required_iters(faces, max, s, n \div 2)
         IN  IF half.returned THEN half
             ELSE required_iters(faces, max, half, n - n \div 2)

\* the loop: iterate until it returns
RECURSIVE required_loop(_, _, _, _)
required_loop(faces, max, s, n) ==
    LET t == required_iters(faces, max, s, n)
    IN  IF t.returned THEN t.ret ELSE required_loop(faces, max, t, 2 * n)

\* fn required_dice_launches(faces: u32, max: &BigUint) -> u32
required_dice_launches(faces, max) ==
    required_loop(faces, max,
                  [count |-> 0, acc |-> BigFromU32(1), returned |-> FALSE, ret |-> 0], 1)

\* the fold of multiply_dice_launches over launches[lo..hi], the first half
\* of them before the second
RECURSIVE multiply_fold(_, _, _, _, _)
multiply_fold(launches, base, sum, lo, hi) ==
    IF lo > hi THEN sum
    ELSE IF lo = hi
    THEN BigAddSmall(BigMulSmall(sum, base), launches[lo] - 1)
    ELSE LET mid  == (lo + hi) \div 2
             left == multiply_fold(launches, base, sum, lo, mid)
         IN  IF Len(left) >= 0
             THEN multiply_fold(launches, base, left, mid + 1, hi)
             ELSE left

\* multiply_dice_launches starting from launches[0] instead of launches[0] - 1
multiply_dice_launches_first_not_decremented(launches, base) ==
    multiply_fold(launches, base, BigFromU32(launches[1]), 2, Len(launches))

\* fn multiply_dice_launches(launches: &[u32], base: u32) -> BigUint
\* (called with launches that validate accepted: non-empty, each >= 1)
multiply_dice_launches(launches, base) ==
    multiply_fold(launches, base, BigFromU32(launches[1] - 1), 2, Len(launches))

\* validate refusing only too few launches
validate_accepts_more_launches(opt) ==
    LET max   == BitsInto(opt.bits)
        faces == opt.faces
        count == required_dice_launches(faces, max)
    IN  IF Len(opt.launches) < count
        THEN Err([msg      |-> "Need {} dice launches (-l) to achieve {} bits of entropy (provided: {})",
                  count    |-> count,
                  bits     |-> opt.bits,
                  provided |-> Len(opt.launches)])
        ELSE IF \E i \in 1..Len(opt.launches) :
                    opt.launches[i] = 0 \/ opt.launches[i] > faces
        THEN Err([msg   |-> "Numbers must be from 1 to {} included",
                  faces |-> faces])
        ELSE Ok(<<>>)

\* validate checking the range of the launches before their number
validate_range_first(opt) ==
    LET max   == BitsInto(opt.bits)
        faces == opt.faces
        count == required_dice_launches(faces, max)
    IN  IF \E i \in 1..Len(opt.launches) :
                    opt.launches[i] = 0 \/ opt.launches[i] > faces
        THEN Err([msg   |-> "Numbers must be from 1 to {} included",
                  faces |-> faces])
        ELSE IF Len(opt.launches) # count
        THEN Err([msg      |-> "Need {} dice launches (-l) to achieve {} bits of entropy (provided: {})",
                  count    |-> count,
                  bits     |-> opt.bits,
                  provided |-> Len(opt.launches)])
        ELSE Ok(<<>>)

\* DiceOptions::validate
validate(opt) ==
    LET max   == BitsInto(opt.bits)
        faces == opt.faces
        count == required_dice_launches(faces, max)
    IN  IF Len(opt.launches) # count
        THEN Err([msg      |-> "Need {} dice launches (-l) to achieve {} bits of entropy (provided: {})",
                  count    |-> count,
                  bits     |-> opt.bits,
                  provided |-> Len(opt.launches)])
        ELSE IF \E i \in 1..Len(opt.launches) :
                    opt.launches[i] = 0 \/ opt.launches[i] > faces
        THEN Err([msg   |-> "Numbers must be from 1 to {} included",
                  faces |-> faces])
        ELSE Ok(<<>>)

\* fn calculate_key: the seed is the integer's minimal big-endian bytes; the
\* key derived from it (PrivateMasterKey::new) is kept as the seed it is
\* derived from
calculate_key(launches, faces, name) ==
    LET acc == multiply_dice_launches(launches, faces)
        sec == to_bytes_be(acc)
    IN  Ok([seed |-> sec,
            name |-> name,
            dice |-> [faces    |-> faces,
                      launches |-> launches,
                      value    |-> to_string(acc)]])

\* pub fn roll: validate, then calculate_key, then save_keys (which the file
\* system lets succeed or not: opt.save_ok)
roll(opt) ==
    LET v == validate(opt)
    IN  IF v.tag = "Err" THEN [ret |-> v, saved |-> {}]
        ELSE LET k == calculate_key(opt.launches, opt.faces, opt.key_name)
             IN  IF opt.save_ok
                 THEN [ret |-> Ok(k.val), saved |-> {k.val}]
                 ELSE [ret |-> Err([msg |-> "save_keys"]), saved |-> {}]

(***************************************************************************)
(* The calls of the dice functions                                         *)
(***************************************************************************)
\* the launch count of every die and entropy target
RequiredTable ==
    [fb \in Base \X Bits |-> required_dice_launches(fb[1], BitsInto(fb[2]))]

\* the values a launch is tried with: both ends of the range and the two
\* values just outside it
LaunchValues(faces) == {0, 1, faces, faces + 1}

\* launch sequences of n launches: all the same value, or all but the first
\* or the last one
LaunchPatterns(faces, n) ==
    { [i \in 1..n |-> IF i = p THEN w ELSE fill] :
        fill \in LaunchValues(faces), w \in LaunchValues(faces), p \in {1, n} }

RollCalls ==
    UNION { UNION { { [fn |-> "roll", faces |-> fb[1], bits |-> fb[2],
                       key_name |-> "a", launches |-> l, save_ok |-> s] :
                         l \in LaunchPatterns(fb[1], n), s \in BOOLEAN } :
                    n \in { m \in (RequiredTable[fb] - LenSlack)..(RequiredTable[fb] + LenSlack) : m >= 1 } } :
            fb \in Base \X Bits }

RequiredCalls ==
    { [fn |-> "required_dice_launches", faces |-> f, max |-> BigFromU32(m), max_int |-> m] :
        f \in (2..MaxFaces) \cup Base \cup {256}, m \in 1..MaxCeil }
    \cup
    { [fn |-> "required_dice_launches", faces |-> f, max |-> BitsInto(b), max_int |-> -1] :
        f \in Base \cup {256}, b \in Bits }

RECURSIVE SeqsOfLen(_, _)
SeqsOfLen(S, n) ==
    IF n = 0 THEN {<<>>}
    ELSE { Append(s, x) : s \in SeqsOfLen(S, n - 1), x \in S }

MultiplyValues(faces) ==
    IF faces <= MaxAllFaces THEN 1..faces ELSE {1, 2, faces - 1, faces}

MultiplyCalls ==
    UNION { { [fn |-> "multiply_dice_launches", faces |-> f, launches |-> l] :
                l \in UNION { SeqsOfLen(MultiplyValues(f), n) : n \in 1..MaxLen } } :
            f \in Base \cup {10} }

Roll ==
    /\ pc = "call"
    /\ call.fn = "roll"
    /\ LET r == roll(call)
       IN  /\ ret' = r.ret
           /\ keys' = keys \cup r.saved
    /\ pc' = "done"
    /\ UNCHANGED <<call, last, overflow_checks>>

RequiredDiceLaunches ==
    /\ pc = "call"
    /\ call.fn = "required_dice_launches"
    /\ ret' = Ok(required_dice_launches(call.faces, call.max))
    /\ pc' = "done"
    /\ UNCHANGED <<call, last, keys, overflow_checks>>

MultiplyDiceLaunches ==
    /\ pc = "call"
    /\ call.fn = "multiply_dice_launches"
    /\ ret' = Ok(multiply_dice_launches(call.launches, call.faces))
    /\ pc' = "done"
    /\ UNCHANGED <<call, last, keys, overflow_checks>>

InitDice ==
    /\ call \in RollCalls \cup RequiredCalls \cup MultiplyCalls
    /\ ret = NoResult
    /\ last = NoResult
    /\ pc = "call"
    /\ keys = {}
    /\ overflow_checks = FALSE

NextDice == Roll \/ RequiredDiceLaunches \/ MultiplyDiceLaunches

SpecDice == InitDice /\ [][NextDice]_vars

(***************************************************************************)
(* print.rs                                                                *)
(*                                                                         *)
(* u64 and i64 are modelled WORD_BITS wide (TLC's integers are 32 bits     *)
(* wide): arithmetic wraps at 2^WORD_BITS as the code's does at 2^64, or   *)
(* panics where the build checks overflows (overflow_checks, as in a debug *)
(* build).                                                                 *)
(***************************************************************************)
WORD_BITS == 14

U64_MOD == 2 ^ WORD_BITS
U64_MAX == U64_MOD - 1
I64_MIN == -(U64_MOD \div 2)
I64_MAX == U64_MOD \div 2 - 1
U8_MOD == 256

\* the result of an arithmetic operation: its value, or a panic
Val(v) == [panic |-> FALSE, val |-> v]
Overflow == [panic |-> TRUE, val |-> 0]

\* u64 + u64
add_u64(a, b, checks) ==
    IF a + b > U64_MAX
    THEN IF checks THEN Overflow ELSE Val((a + b) % U64_MOD)
    ELSE Val(a + b)

\* u64 - u64
sub_u64(a, b, checks) ==
    IF a < b
    THEN IF checks THEN Overflow ELSE Val((a - b) % U64_MOD)
    ELSE Val(a - b)

\* u64 * u64
mul_u64(a, b, checks) ==
    IF a * b > U64_MAX
    THEN IF checks THEN Overflow ELSE Val((a * b) % U64_MOD)
    ELSE Val(a * b)

\* u64 as i64
as_i64(v) == IF v > I64_MAX THEN v - U64_MOD ELSE v

\* an integer wrapped into i64
wrap_i64(r) == ((r - I64_MIN) % U64_MOD) + I64_MIN

\* i64 + i64
add_i64(a, b, checks) ==
    IF a + b > I64_MAX \/ a + b < I64_MIN
    THEN IF checks THEN Overflow ELSE Val(wrap_i64(a + b))
    ELSE Val(a + b)

\* i64 - i64
sub_i64(a, b, checks) ==
    IF a - b > I64_MAX \/ a - b < I64_MIN
    THEN IF checks THEN Overflow ELSE Val(wrap_i64(a - b))
    ELSE Val(a - b)

\* iter().sum::<u64>() of values[i..]
RECURSIVE sum_u64_from(_, _, _, _)
sum_u64_from(values, i, acc, checks) ==
    IF i > Len(values) THEN Val(acc)
    ELSE LET r == add_u64(acc, values[i], checks)
         IN  IF r.panic THEN r ELSE sum_u64_from(values, i + 1, r.val, checks)

sum_u64(values, checks) == sum_u64_from(values, 1, 0, checks)

\* the loop of biggest_dividing_pow
RECURSIVE biggest_dividing_pow_loop(_, _, _, _, _)
biggest_dividing_pow_loop(num, start, count, wrapped, checks) ==
    IF start = 0
    THEN Panic("print.rs:169: attempt to calculate the remainder with a divisor of zero")
    ELSE IF num % start # 0
    THEN [tag |-> "Ok", val |-> count, wrapped |-> wrapped]
    ELSE LET start1 == mul_u64(start, 10, checks)
         IN  IF start1.panic THEN Panic("print.rs:172: attempt to multiply with overflow")
             ELSE IF count + 1 >= U8_MOD /\ checks
             THEN Panic("print.rs:173: attempt to add with overflow")
             ELSE biggest_dividing_pow_loop(num, start1.val, (count + 1) % U8_MOD,
                                            wrapped \/ start * 10 > U64_MAX
                                                    \/ count + 1 >= U8_MOD,
                                            checks)

\* fn biggest_dividing_pow(num: u64) -> u8; `wrapped` tells that start or
\* count overflowed (and wrapped) on the way
biggest_dividing_pow(num, checks) ==
    biggest_dividing_pow_loop(num, 10, 0, FALSE, checks)

\* the scripts: the five shapes of SCRIPT_TYPE_FN, a witness program that is
\* neither a v0 key hash nor a v0 script hash (a v1 program), and a script
\* that is no address (a null data output)
ScriptKinds ==
    {"p2pk", "p2pkh", "p2sh", "v0_p2wpkh", "v0_p2wsh", "v1_witness_program", "op_return"}

\* const SCRIPT_TYPE_FN: Script::is_p2pk, is_p2pkh, is_p2sh, is_v0_p2wpkh,
\* is_v0_p2wsh
SCRIPT_TYPE_FN == <<"p2pk", "p2pkh", "p2sh", "v0_p2wpkh", "v0_p2wsh">>

\* fn script_type(script: &Script) -> Option<usize>: the position of the
\* first predicate the script satisfies
script_type(script) ==
    LET hits == { i \in 1..Len(SCRIPT_TYPE_FN) : SCRIPT_TYPE_FN[i] = script.kind }
    IN  IF hits = {} THEN None
        ELSE Some((CHOOSE i \in hits : \A j \in hits : i <= j) - 1)

\* Address::from_script(..).is_some(): a pay to key hash, a pay to script
\* hash or a witness program
is_address(script) ==
    script.kind \in {"p2pkh", "p2sh", "v0_p2wpkh", "v0_p2wsh", "v1_witness_program"}

\* the elements of a set of numbers in ascending order (vec.sort())
RECURSIVE sorted(_)
sorted(S) ==
    IF S = {} THEN <<>>
    ELSE LET min == CHOOSE x \in S : \A y \in S : x <= y
         IN  <<min>> \o sorted(S \ {min})

\* pub fn derivation_paths: the paths, sorted, without duplicates
derivation_paths(hd_keypaths) == sorted({ kp.path : kp \in hd_keypaths })

\* fn which_wallet: the names of the wallets holding every fingerprint of the
\* key paths, in the order of the wallets
which_wallet(hd_keypaths, wallets) ==
    LET matching == SelectSeq(wallets,
                      LAMBDA w : /\ hd_keypaths # {}
                                 /\ \A kp \in hd_keypaths : kp.fp \in w.fingerprints)
    IN  [i \in 1..Len(matching) |-> matching[i].name]

\* the previous output of input i, reading a witness utxo also when a non
\* witness utxo is there
previous_output_witness_wins(psbt, i) ==
    LET input == psbt.inputs[i]
        vouts == [j \in 1..Len(psbt.tx.input) |-> psbt.tx.input[j].previous_output]
    IN  IF input.witness_utxo # None
        THEN Ok(input.witness_utxo[1])
        ELSE IF input.non_witness_utxo # None
        THEN LET prev_tx == input.non_witness_utxo[1]
             IN  IF i > Len(vouts) THEN Err("can't find outpoint")
                 ELSE IF prev_tx.txid # vouts[i].txid
                 THEN Panic("print.rs:46: assertion failed: prev_tx.txid() == outpoint.txid")
                 ELSE IF vouts[i].vout + 1 > Len(prev_tx.output)
                 THEN Err("can't find txout")
                 ELSE Ok(prev_tx.output[vouts[i].vout + 1])
        ELSE Err("witness_utxo and non_witness_utxo are both None or both Some")

\* pretty_print, lines 43-54: the previous output of input i (i from 1)
previous_output(psbt, i) ==
    LET input == psbt.inputs[i]
        vouts == [j \in 1..Len(psbt.tx.input) |-> psbt.tx.input[j].previous_output]
    IN  IF input.non_witness_utxo # None /\ input.witness_utxo = None
        THEN LET prev_tx == input.non_witness_utxo[1]
             IN  IF i > Len(vouts) THEN Err("can't find outpoint")
                 ELSE IF prev_tx.txid # vouts[i].txid
                 THEN Panic("print.rs:46: assertion failed: prev_tx.txid() == outpoint.txid")
                 ELSE IF vouts[i].vout + 1 > Len(prev_tx.output)
                 THEN Err("can't find txout")
                 ELSE Ok(prev_tx.output[vouts[i].vout + 1])
        ELSE IF input.non_witness_utxo = None /\ input.witness_utxo # None
        THEN Ok(input.witness_utxo[1])
        ELSE Err("witness_utxo and non_witness_utxo are both None or both Some")

\* pretty_print, lines 42-56: the previous outputs of the inputs from i on,
\* appended to acc; the first error or panic ends the loop
RECURSIVE previous_outputs_from(_, _, _)
previous_outputs_from(psbt, i, acc) ==
    IF i > Len(psbt.inputs) THEN Ok(acc)
    ELSE LET r == previous_output(psbt, i)
         IN  IF r.tag # "Ok" THEN r
             ELSE previous_outputs_from(psbt, i + 1, Append(acc, r.val))

previous_outputs_of(psbt) == previous_outputs_from(psbt, 1, <<>>)

\* balances.entry(wallet).or_insert(0) -= amount (negative) or += amount, for
\* the wallets names[j..]
RECURSIVE balances_apply(_, _, _, _, _, _)
balances_apply(balances, names, j, amount, negative, checks) ==
    IF j > Len(names) THEN Val(balances)
    ELSE LET wallet == names[j]
             old    == IF wallet \in DOMAIN balances THEN balances[wallet] ELSE 0
             new    == IF negative THEN sub_i64(old, amount, checks)
                       ELSE add_i64(old, amount, checks)
         IN  IF new.panic THEN Overflow
             ELSE balances_apply(
                    [w \in DOMAIN balances \cup {wallet} |->
                        IF w = wallet THEN new.val ELSE balances[w]],
                    names, j + 1, amount, negative, checks)

\* pretty_print, lines 60-74: the rows and balances of the inputs from i on
RECURSIVE inputs_loop(_, _, _, _, _, _)
inputs_loop(psbt, wallets, previous_outputs, i, st, checks) ==
    IF i > Len(psbt.tx.input) THEN Ok(st)
    ELSE IF i > Len(psbt.inputs) \/ i > Len(previous_outputs)
    THEN Panic("print.rs:61: index out of bounds")
    ELSE LET keypaths == psbt.inputs[i].hd_keypaths
             names    == which_wallet(keypaths, wallets)
             txin     == [outpoint |-> Some(psbt.tx.input[i].previous_output),
                          address  |-> None,
                          value    |-> previous_outputs[i].value,
                          path     |-> derivation_paths(keypaths),
                          wallet   |-> names]
             bal      == balances_apply(st.balances, names, 1,
                                        as_i64(previous_outputs[i].value), TRUE, checks)
         IN  IF bal.panic THEN Panic("print.rs:71: attempt to subtract with overflow")
             ELSE inputs_loop(psbt, wallets, previous_outputs, i + 1,
                              [balances |-> bal.val, inputs |-> Append(st.inputs, txin)],
                              checks)

\* pretty_print, lines 76-93: the rows, balances and values of the outputs
\* from i on
RECURSIVE outputs_loop(_, _, _, _, _)
outputs_loop(psbt, wallets, i, st, checks) ==
    IF i > Len(psbt.tx.output) THEN Ok(st)
    ELSE LET output == psbt.tx.output[i]
         IN  IF ~is_address(output.script_pubkey) THEN Err("non default script")
             ELSE IF i > Len(psbt.outputs) THEN Panic("print.rs:79: index out of bounds")
             ELSE LET keypaths == psbt.outputs[i].hd_keypaths
                      names    == which_wallet(keypaths, wallets)
                      txout    == [outpoint |-> None,
                                   address  |-> Some(output.script_pubkey),
                                   value    |-> output.value,
                                   path     |-> derivation_paths(keypaths),
                                   wallet   |-> names]
                      bal      == balances_apply(st.balances, names, 1,
                                                 as_i64(output.value), FALSE, checks)
                  IN  IF bal.panic THEN Panic("print.rs:89: attempt to add with overflow")
                      ELSE outputs_loop(psbt, wallets, i + 1,
                                        [balances      |-> bal.val,
                                         outputs       |-> Append(st.outputs, txout),
                                         output_values |-> Append(st.output_values, output.value)],
                                        checks)

\* pretty_print, lines 94-98: the balances in the order the HashMap iterates
\* its keys (order: a sequence of all the names, those with a balance kept)
balances_text(balances, order) ==
    LET listed == SelectSeq(order, LAMBDA k : k \in DOMAIN balances)
    IN  [i \in 1..Len(listed) |-> <<listed[i], balances[listed[i]]>>]

INFO_SCRIPT_TYPES ==
    "Privacy: outputs have different script types https://en.bitcoin.it/wiki/Privacy#Sending_to_a_different_script_type"
INFO_PRECISION ==
    "Privacy: outputs have different precision https://en.bitcoin.it/wiki/Privacy#Round_numbers"
INFO_UNNECESSARY_INPUT ==
    "Privacy: smallest output is smaller then smallest input https://en.bitcoin.it/wiki/Privacy#Unnecessary_input_heuristic"
INFO_ADDRESS_REUSE ==
    "Privacy: address reuse https://en.bitcoin.it/wiki/Privacy#Address_reuse"

\* the script types test counting the classified shapes only
different_script_types_classified_only(outputs) ==
    LET script_types == { script_type(outputs[i].script_pubkey) : i \in 1..Len(outputs) }
    IN  Cardinality(script_types \ {None}) > 1

\* pretty_print, lines 102-108: the outputs have different script types
different_script_types(outputs) ==
    LET script_types == { script_type(outputs[i].script_pubkey) : i \in 1..Len(outputs) }
    IN  Cardinality(script_types) > 1

Max(S) == CHOOSE x \in S : \A y \in S : y <= x
Min(S) == CHOOSE x \in S : \A y \in S : x <= y

\* pretty_print, lines 116-120: the outputs have different precision
different_precision(divs) ==
    LET ds == { divs[i].val : i \in 1..Len(divs) }
    IN  ds # {} /\ Max(ds) - Min(ds) >= 3

\* pretty_print, lines 123-129: an output is smaller than the smallest input
unnecessary_input(previous_outputs, input_values, output_values) ==
    /\ Len(previous_outputs) > 1
    /\ \E i \in 1..Len(output_values) :
          output_values[i] < Min({ input_values[j] : j \in 1..Len(input_values) })

\* pretty_print, lines 132-144: an output pays to the script of an input
address_reuse(previous_outputs, outputs) ==
    LET input_scripts ==
          { previous_outputs[i].script_pubkey : i \in 1..Len(previous_outputs) }
    IN  \E i \in 1..Len(outputs) : outputs[i].script_pubkey \in input_scripts

\* pretty_print, lines 100-162: the privacy analysis, the fee and the sizes
analysis(psbt, previous_outputs, st, order, checks) ==
    LET tx            == psbt.tx
        input_values  == [i \in 1..Len(previous_outputs) |-> previous_outputs[i].value]
        output_values == st.output_values
        divs          == [i \in 1..Len(tx.output) |->
                            biggest_dividing_pow(tx.output[i].value, checks)]
        panicking     == { i \in 1..Len(divs) : divs[i].tag = "Panic" }
        info          ==
            (IF different_script_types(tx.output) THEN <<INFO_SCRIPT_TYPES>> ELSE <<>>)
            \o (IF different_precision(divs) THEN <<INFO_PRECISION>> ELSE <<>>)
            \o (IF unnecessary_input(previous_outputs, input_values, output_values)
                THEN <<INFO_UNNECESSARY_INPUT>> ELSE <<>>)
            \o (IF address_reuse(previous_outputs, tx.output)
                THEN <<INFO_ADDRESS_REUSE>> ELSE <<>>)
        sum_in        == sum_u64(input_values, checks)
        sum_out       == sum_u64(output_values, checks)
        fee           == sub_u64(sum_in.val, sum_out.val, checks)
    IN  IF panicking # {} THEN divs[Min(panicking)]
        ELSE IF sum_in.panic \/ sum_out.panic THEN Panic("print.rs:146: attempt to add with overflow")
        ELSE IF fee.panic THEN Panic("print.rs:146: attempt to subtract with overflow")
        ELSE IF psbt.estimate_weight.tag # "Ok" THEN psbt.estimate_weight
        ELSE Ok([inputs   |-> st.inputs,
                 outputs  |-> st.outputs,
                 balances |-> balances_text(st.balances, order),
                 info     |-> info,
                 size     |-> [estimated |-> psbt.estimate_weight.val \div 4,
                               unsigned  |-> psbt.weight \div 4,
                               psbt      |-> psbt.serialized_len],
                 fee      |-> [absolute     |-> fee.val,
                               absolute_fmt |-> fee.val,
                               rate         |-> <<fee.val, psbt.estimate_weight.val \div 4>>]])

\* pub fn pretty_print(psbt, network, wallets); order is the order in which
\* the HashMap of the balances iterates, checks whether the build checks
\* arithmetic overflows
pretty_print(psbt, wallets, order, checks) ==
    LET resolved == previous_outputs_of(psbt)
    IN  IF resolved.tag # "Ok" THEN resolved
        ELSE LET ins == inputs_loop(psbt, wallets, resolved.val, 1,
                                    [balances |-> <<>>, inputs |-> <<>>], checks)
             IN  IF ins.tag # "Ok" THEN ins
                 ELSE LET outs == outputs_loop(psbt, wallets, 1,
                                     [balances      |-> ins.val.balances,
                                      outputs       |-> <<>>,
                                      output_values |-> <<>>], checks)
                      IN  IF outs.tag # "Ok" THEN outs
                          ELSE analysis(psbt, resolved.val,
                                        [inputs        |-> ins.val.inputs,
                                         outputs       |-> outs.val.outputs,
                                         output_values |-> outs.val.output_values,
                                         balances      |-> outs.val.balances],
                                        order, checks)

(***************************************************************************)
(* The calls of the print functions                                        *)
(*                                                                         *)
(* A PSBT is what the decoder of the PSBT format hands out: one entry of   *)
(* psbt.inputs per input and one of psbt.outputs per output of the         *)
(* unsigned transaction. Its weight, its estimated weight (the result of   *)
(* estimate_weight) and its serialized length come with it.                *)
(***************************************************************************)
Script(kind, hash) == [kind |-> kind, hash |-> hash]
TxOut(value, script) == [value |-> value, script_pubkey |-> script]
OutPoint(txid, vout) == [txid |-> txid, vout |-> vout]
KeyPath(key, fp, path) == [key |-> key, fp |-> fp, path |-> path]

\* a PSBT of the inputs ins (outpoint, utxos, key paths) and the outputs outs
\* (value, script, key paths)
MkPsbt(ins, outs, estimate) ==
    [tx      |-> [input  |-> [i \in 1..Len(ins) |->
                                [previous_output |-> ins[i].previous_output]],
                  output |-> [i \in 1..Len(outs) |->
                                TxOut(outs[i].value, outs[i].script_pubkey)]],
     inputs  |-> [i \in 1..Len(ins) |->
                    [non_witness_utxo |-> ins[i].non_witness_utxo,
                     witness_utxo     |-> ins[i].witness_utxo,
                     hd_keypaths      |-> ins[i].hd_keypaths]],
     outputs |-> [i \in 1..Len(outs) |-> [hd_keypaths |-> outs[i].hd_keypaths]],
     weight          |-> 40 + 164 * Len(ins) + 124 * Len(outs),
     estimate_weight |-> estimate,
     serialized_len  |-> 20 + 100 * Len(ins) + 40 * Len(outs)]

SeqsUpTo(S, lo, hi) == UNION { SeqsOfLen(S, n) : n \in lo..hi }

\* the wallets; the names in ascending order are alice, bob, carol
WalletNames == <<"alice", "bob", "carol">>
Alice == [name |-> "alice", fingerprints |-> {"fa"}]
Bob   == [name |-> "bob", fingerprints |-> {"fa", "fb"}]
Carol == [name |-> "carol", fingerprints |-> {"fc"}]

\* key paths of no wallet, of alice and bob, of bob alone, of carol
KeyPathSets ==
    { {},
      {KeyPath("ka", "fa", 1)},
      {KeyPath("ka", "fa", 1), KeyPath("kb", "fb", 2)},
      {KeyPath("kc", "fc", 2)} }

\* an input spending a witness utxo
WitnessInput(value, keypaths) ==
    [previous_output  |-> OutPoint(1, 0),
     non_witness_utxo |-> None,
     witness_utxo     |-> Some(TxOut(value, Script("v0_p2wpkh", 1))),
     hd_keypaths      |-> keypaths]

PlainOutput(value, script, keypaths) ==
    [value |-> value, script_pubkey |-> script, hd_keypaths |-> keypaths]

\* the previous transaction with id txid
PrevTx(txid) ==
    [txid   |-> txid,
     output |-> <<TxOut(3, Script("p2pkh", 1)), TxOut(4, Script("v0_p2wpkh", 1))>>]

PrettyPrintCall(psbt, wallets) ==
    [fn |-> "pretty_print", psbt |-> psbt, wallets |-> wallets]

\* inputs with every combination of utxos: none, a witness utxo, a previous
\* transaction (with the id of the outpoint or another), both; outpoints
\* within and past the outputs of the previous transaction
UtxoInputs ==
    { [previous_output  |-> OutPoint(1, vout),
       non_witness_utxo |-> nw,
       witness_utxo     |-> w,
       hd_keypaths      |-> {}] :
        vout \in 0..2,
        nw \in {None, Some(PrevTx(1)), Some(PrevTx(2))},
        w \in {None, Some(TxOut(5, Script("p2sh", 1)))} }

UtxoCalls ==
    { PrettyPrintCall(MkPsbt(ins, <<PlainOutput(1, Script("v0_p2wsh", 2), {})>>, Ok(440)),
                      <<Alice>>) :
        ins \in SeqsUpTo(UtxoInputs, 0, MaxInputs) }

\* values around the ends of u64
FeeAmounts == {0, 1, U64_MAX}

FeeCalls ==
    { PrettyPrintCall(
        MkPsbt([i \in 1..Len(c[1]) |-> WitnessInput(c[1][i], {})],
               [i \in 1..Len(c[2]) |-> PlainOutput(c[2][i], Script("p2pkh", 2), {})],
               c[3]),
        <<Alice>>) :
        c \in SeqsUpTo(FeeAmounts, 0, MaxInputs) \X SeqsUpTo(FeeAmounts, 1, MaxOutputs)
              \X {Ok(440), Err("estimate_weight")} }

\* every kind of script, and a second v0_p2wpkh script
Scripts ==
    { Script(k, 1) : k \in ScriptKinds } \cup { Script("v0_p2wpkh", 2) }

ScriptCalls ==
    { PrettyPrintCall(
        MkPsbt(<<WitnessInput(9, {})>>,
               [i \in 1..Len(scripts) |-> PlainOutput(1, scripts[i], {})],
               Ok(440)),
        <<Alice>>) :
        scripts \in SeqsUpTo(Scripts, 1, MaxOutputs) }

\* an input of alice, bob, both or neither of value 2 or i64::MAX + 1, outputs
\* to them of value 1, the wallets listed in two orders
WalletCalls ==
    { PrettyPrintCall(
        MkPsbt(<<WitnessInput(c[1], c[2])>>,
               [i \in 1..Len(c[3]) |-> PlainOutput(1, Script("v0_p2wpkh", 2), c[3][i])],
               Ok(440)),
        c[4]) :
        c \in {2, I64_MAX + 1} \X KeyPathSets \X SeqsUpTo(KeyPathSets, 1, MaxOutputs)
              \X {<<Alice, Bob, Carol>>, <<Carol, Bob, Alice>>} }

\* values divisible by different powers of ten
RoundAmounts == {0, 1, 10, 120, 1000, 5000, 10000}

RoundCalls ==
    { PrettyPrintCall(
        MkPsbt(<<WitnessInput(U64_MAX, {}), WitnessInput(U64_MAX, {})>>,
               [i \in 1..Len(values) |-> PlainOutput(values[i], Script("p2sh", 2), {})],
               Ok(440)),
        <<Alice>>) :
        values \in SeqsUpTo(RoundAmounts, 1, MaxOutputs) }

PrettyPrintCalls == UtxoCalls \cup FeeCalls \cup ScriptCalls \cup WalletCalls \cup RoundCalls

BiggestDividingPowCalls ==
    { [fn |-> "biggest_dividing_pow", num |-> v] : v \in 0..U64_MAX }

\* the orders in which a HashMap with the keys S may iterate
RECURSIVE Orders(_)
Orders(S) ==
    IF S = {} THEN {<<>>}
    ELSE UNION { { <<x>> \o o : o \in Orders(S \ {x}) } : x \in S }

\* a run of pretty_print on the PSBT and the wallets of the call; it may be
\* run again on the same call (last: the result of the run before)
PrettyPrint ==
    /\ call.fn = "pretty_print"
    /\ \E order \in Orders({ call.wallets[i].name : i \in 1..Len(call.wallets) }) :
          ret' = pretty_print(call.psbt, call.wallets, order, overflow_checks)
    /\ last' = ret
    /\ pc' = "done"
    /\ UNCHANGED <<call, keys, overflow_checks>>

BiggestDividingPow ==
    /\ pc = "call"
    /\ call.fn = "biggest_dividing_pow"
    /\ ret' = biggest_dividing_pow(call.num, overflow_checks)
    /\ pc' = "done"
    /\ UNCHANGED <<call, last, keys, overflow_checks>>

InitPrint ==
    /\ call \in PrettyPrintCalls \cup BiggestDividingPowCalls
    /\ ret = NoResult
    /\ last = NoResult
    /\ pc = "call"
    /\ keys = {}
    /\ overflow_checks \in BOOLEAN

NextPrint == PrettyPrint \/ BiggestDividingPow

SpecPrint == InitPrint /\ [][NextPrint]_vars

(***************************************************************************)
(* Claims about dice.rs                                                    *)
(***************************************************************************)
RECURSIVE BigPowFrom(_, _, _)
BigPowFrom(acc, f, n) ==
    IF n = 0 THEN acc
    ELSE IF n = 1 THEN BigMulSmall(acc, f)
    ELSE LET half == BigPowFrom(acc, f, n \div 2)
         IN  IF Len(half) >= 0 THEN BigPowFrom(half, f, n - n \div 2) ELSE half

\* f^n as a BigUint
BigPow(f, n) == BigPowFrom(BigFromU32(1), f, n)

\* log2 of the dice whose number of faces is a power of two
Log2Faces(f) == CASE f = 2 -> 1 [] f = 4 -> 2 [] f = 8 -> 3 [] f = 256 -> 8 [] OTHER -> 0

RequiredDone == pc = "done" /\ call.fn = "required_dice_launches"

\* C1: required_dice_launches(faces, max), for faces >= 2 and max >= 1,
\* returns the largest count with faces^count <= max: faces^count <= max and
\* faces^(count+1) > max, and 0 when faces > max. (For a ceiling 2^bits and
\* 2^k faces that count is bits \div k.)
C1_RequiredIsLargestCount ==
    RequiredDone =>
        /\ ret.tag = "Ok"
        /\ ret.val \in Nat
        /\ LET count == ret.val
               faces == call.faces
           IN  IF call.max_int >= 0
               THEN /\ faces ^ count <= call.max_int
                    /\ faces ^ (count + 1) > call.max_int
                    /\ (faces > call.max_int => count = 0)
               ELSE /\ ~BigGt(BigPow(faces, count), call.max)
                    /\ BigGt(BigPow(faces, count + 1), call.max)
                    /\ (Log2Faces(faces) > 0 =>
                          \E b \in Bits : /\ call.max = BitsInto(b)
                                          /\ count = b \div Log2Faces(faces))

\* C1's case: a ceiling strictly between two powers of the faces
C1_Witness ==
    /\ RequiredDone
    /\ call.faces = 6
    /\ call.max_int = 37
    /\ ret = Ok(2)

RollDone == pc = "done" /\ call.fn = "roll"

\* a decimal numeral (no leading zeros) is less than another
RECURSIVE DigitsLess(_, _, _)
DigitsLess(a, b, i) ==
    IF i > Len(a) THEN FALSE
    ELSE IF a[i] # b[i] THEN a[i] < b[i]
    ELSE DigitsLess(a, b, i + 1)

DecimalLess(a, b) ==
    IF Len(a) # Len(b) THEN Len(a) < Len(b) ELSE DigitsLess(a, b, 1)

\* C2: whenever roll produced a key (validate accepted the launches), the
\* integer the launches decode to is strictly less than 2^bits, and the seed
\* handed to the key derivation is at most bits/8 bytes long.
C2_SeedBelowCeiling ==
    (RollDone /\ ret.tag = "Ok") =>
        /\ DecimalLess(ret.val.dice.value, to_string(BitsInto(call.bits)))
        /\ Len(ret.val.seed) * 8 <= call.bits

\* C2's case: the highest launches of the twenty-sided die, 29 twenties for
\* 128 bits, gave a key
C2_Witness ==
    /\ RollDone
    /\ ret.tag = "Ok"
    /\ call.faces = 20
    /\ call.bits = 128
    /\ \A i \in 1..Len(call.launches) : call.launches[i] = 20
    /\ Len(call.launches) = 29

LaunchesInRange(opt) ==
    \A i \in 1..Len(opt.launches) :
        opt.launches[i] >= 1 /\ opt.launches[i] <= opt.faces

\* C3: roll passes validation iff the number of launches is
\* required_dice_launches(faces, 2^bits) and every launch is in 1..faces. A
\* wrong number of launches gives the count error (with the required and the
\* provided counts), also when launches are out of range; the right number
\* with a launch out of range gives the range error (with faces); and after
\* either error no key was computed or saved.
C3_ValidateIff ==
    RollDone =>
        LET count == RequiredTable[<<call.faces, call.bits>>]
            n     == Len(call.launches)
        IN  /\ n # count =>
                 ret = Err([msg      |-> "Need {} dice launches (-l) to achieve {} bits of entropy (provided: {})",
                            count    |-> count,
                            bits     |-> call.bits,
                            provided |-> n])
            /\ (n = count /\ ~LaunchesInRange(call)) =>
                 ret = Err([msg   |-> "Numbers must be from 1 to {} included",
                            faces |-> call.faces])
            /\ (n = count /\ LaunchesInRange(call)) =>
                 IF call.save_ok THEN ret.tag = "Ok" /\ keys = {ret.val}
                 ELSE ret = Err([msg |-> "save_keys"])
            /\ (n # count \/ ~LaunchesInRange(call)) => (ret.tag = "Err" /\ keys = {})

\* C3's case: a wrong number of launches that are out of range as well
C3_Witness ==
    /\ RollDone
    /\ call.faces = 20
    /\ call.bits = 128
    /\ Len(call.launches) = 28
    /\ \A i \in 1..28 : call.launches[i] = 21
    /\ ret.tag = "Err"
    /\ ret.err.count = 29
    /\ ret.err.provided = 28

MultiplyDone == pc = "done" /\ call.fn = "multiply_dice_launches"

\* sum over i of (v[i] - 1) * faces^(N - i), v[1] the most significant
RECURSIVE MixedRadix(_, _, _)
MixedRadix(v, faces, i) ==
    IF i > Len(v) THEN 0
    ELSE (v[i] - 1) * faces ^ (Len(v) - i) + MixedRadix(v, faces, i + 1)

\* C4: multiply_dice_launches(v, faces), for a non-empty v of launches in
\* 1..faces, is the mixed radix value of the digits v[i]-1, most significant
\* first; it lies in 0..faces^N-1, is 0 for all ones and faces^N-1 for all
\* faces.
C4_MultiplyIsMixedRadix ==
    MultiplyDone =>
        LET v     == call.launches
            faces == call.faces
            N     == Len(v)
        IN  /\ ret = Ok(BigFromU32(MixedRadix(v, faces, 1)))
            /\ ~BigGt(ret.val, BigFromU32(faces ^ N - 1))
            /\ (\A i \in 1..N : v[i] = 1) => ret.val = BigFromU32(0)
            /\ (\A i \in 1..N : v[i] = faces) => ret.val = BigFromU32(faces ^ N - 1)

\* C4's case: the launches 6, 6 of a six-sided die decode to 35
C4_Witness ==
    /\ MultiplyDone
    /\ call.faces = 6
    /\ call.launches = <<6, 6>>
    /\ ret = Ok(BigFromU32(35))

(***************************************************************************)
(* Claims about print.rs                                                   *)
(***************************************************************************)
PrettyPrintDone == pc = "done" /\ call.fn = "pretty_print"

NumInputs == Len(call.psbt.tx.input)
NumOutputs == Len(call.psbt.tx.output)

HasNonWitness(i) == call.psbt.inputs[i].non_witness_utxo # None
HasWitness(i) == call.psbt.inputs[i].witness_utxo # None

\* exactly one of the two utxos of input i is present
ExactlyOne(i) == HasNonWitness(i) # HasWitness(i)

\* the embedded previous transaction of input i has another id than the
\* outpoint of input i
TxidMismatch(i) ==
    /\ HasNonWitness(i)
    /\ ~HasWitness(i)
    /\ call.psbt.inputs[i].non_witness_utxo[1].txid
         # call.psbt.tx.input[i].previous_output.txid

\* the outpoint of input i is past the outputs of its embedded transaction
VoutPastOutputs(i) ==
    /\ HasNonWitness(i)
    /\ ~HasWitness(i)
    /\ ~TxidMismatch(i)
    /\ call.psbt.tx.input[i].previous_output.vout
         >= Len(call.psbt.inputs[i].non_witness_utxo[1].output)

Resolvable(i) == ExactlyOne(i) /\ ~TxidMismatch(i) /\ ~VoutPastOutputs(i)

\* the output input i spends (of a resolvable input)
SpentOutput(i) ==
    IF HasWitness(i) THEN call.psbt.inputs[i].witness_utxo[1]
    ELSE call.psbt.inputs[i].non_witness_utxo[1].output[
            call.psbt.tx.input[i].previous_output.vout + 1]

RECURSIVE SumTo(_, _)
SumTo(f, n) == IF n = 0 THEN 0 ELSE f[n] + SumTo(f, n - 1)

\* the sums of the values of the (resolvable) inputs and of the outputs, as
\* integers
S_in == SumTo([i \in 1..NumInputs |-> SpentOutput(i).value], NumInputs)
S_out == SumTo([i \in 1..NumOutputs |-> call.psbt.tx.output[i].value], NumOutputs)

Emitted(finding) == \E k \in 1..Len(ret.val.info) : ret.val.info[k] = finding

\* an abort in the computation of the fee
FeeAbort ==
    /\ ret.tag = "Panic"
    /\ ret.msg \in {"print.rs:146: attempt to add with overflow",
                    "print.rs:146: attempt to subtract with overflow"}

\* C5: with every input resolved and no abort before the fee is computed:
\* the computation of the fee does not abort; if the outputs sum to more
\* than the inputs pretty_print fails with an error; and a report it gives
\* has S_out <= S_in and fee.absolute = S_in - S_out.
C5_FeeOrNegativeFeeError ==
    (/\ PrettyPrintDone
     /\ \A i \in 1..NumInputs : Resolvable(i)
     /\ ret.tag = "Panic" => FeeAbort) =>
        /\ ~FeeAbort
        /\ S_out > S_in => ret.tag = "Err"
        /\ ret.tag = "Ok" => (S_out <= S_in /\ ret.val.fee.absolute = S_in - S_out)

\* C6: when the first input that cannot be resolved embeds a previous
\* transaction with another id than its outpoint, or has an outpoint past the
\* outputs of the embedded transaction, pretty_print returns an error to its
\* caller; the resolution of the previous outputs never aborts.
C6_MismatchReturnsError ==
    PrettyPrintDone =>
        /\ \A i \in 1..NumInputs :
              ((TxidMismatch(i) \/ VoutPastOutputs(i)) /\ \A j \in 1..(i - 1) : Resolvable(j))
                 => ret.tag = "Err"
        /\ previous_outputs_of(call.psbt).tag \in {"Ok", "Err"}

\* C7: a report is given only when every input has exactly one of the two
\* utxos; when the first input that cannot be resolved has both or neither,
\* pretty_print returns the error saying so; and with a report, the resolved
\* previous outputs are one per input of the transaction, in their order:
\* the witness utxo, or output number vout of the embedded transaction.
C7_ExactlyOneUtxo ==
    PrettyPrintDone =>
        /\ ret.tag = "Ok" => \A i \in 1..NumInputs : ExactlyOne(i)
        /\ \A i \in 1..NumInputs :
              (~ExactlyOne(i) /\ \A j \in 1..(i - 1) : Resolvable(j))
                 => ret = Err("witness_utxo and non_witness_utxo are both None or both Some")
        /\ ret.tag = "Ok" =>
              /\ previous_outputs_of(call.psbt) = Ok([i \in 1..NumInputs |-> SpentOutput(i)])
              /\ Len(ret.val.inputs) = NumInputs
              /\ \A i \in 1..NumInputs :
                    /\ ret.val.inputs[i].value = SpentOutput(i).value
                    /\ ret.val.inputs[i].outpoint = Some(call.psbt.tx.input[i].previous_output)

\* C7's case: a report for an input spending output 1 of an embedded
\* transaction and an input spending a witness utxo
C7_Witness ==
    /\ PrettyPrintDone
    /\ ret.tag = "Ok"
    /\ NumInputs = 2
    /\ HasNonWitness(1) /\ ~HasWitness(1)
    /\ call.psbt.tx.input[1].previous_output.vout = 1
    /\ HasWitness(2) /\ ~HasNonWitness(2)
    /\ ret.val.inputs[1].value = 4
    /\ ret.val.inputs[2].value = 5

FiveShapes == {"p2pk", "p2pkh", "p2sh", "v0_p2wpkh", "v0_p2wsh"}

OutputKinds == { call.psbt.tx.output[i].script_pubkey.kind : i \in 1..NumOutputs }

\* the classification of an output: its shape, or unclassified
ClassOf(i) ==
    LET kind == call.psbt.tx.output[i].script_pubkey.kind
    IN  IF kind \in FiveShapes THEN kind ELSE "unclassified"

\* C8 as claimed: in a report, the script types finding is emitted iff the
\* outputs have more than one distinct classified shape, the unclassified
\* outputs not counting.
C8_Original_ClassifiedShapesOnly ==
    (PrettyPrintDone /\ ret.tag = "Ok") =>
        (Emitted(INFO_SCRIPT_TYPES) <=> Cardinality(OutputKinds \cap FiveShapes) > 1)

\* C8 amended: in a report, the script types finding is emitted iff two
\* outputs are classified differently, unclassified being a classification
\* of its own beside the five shapes.
C8_UnclassifiedCounts ==
    (PrettyPrintDone /\ ret.tag = "Ok") =>
        (Emitted(INFO_SCRIPT_TYPES)
           <=> \E i, j \in 1..NumOutputs : ClassOf(i) # ClassOf(j))

\* C8's case: a report with the finding for one classified shape and one
\* unclassified output
C8_Witness ==
    /\ PrettyPrintDone
    /\ ret.tag = "Ok"
    /\ OutputKinds = {"v0_p2wpkh", "v1_witness_program"}
    /\ Emitted(INFO_SCRIPT_TYPES)

\* the place of a wallet name in the ascending order of the names
Rank(name) == CHOOSE k \in 1..Len(WalletNames) : WalletNames[k] = name

\* C9: the balances of a report are listed in ascending order of the wallet
\* names, and a run on the same PSBT and wallets gives what the run before
\* gave.
C9_BalancesSortedAndDeterministic ==
    PrettyPrintDone =>
        /\ ret.tag = "Ok" =>
              \A i, j \in 1..Len(ret.val.balances) :
                 i < j => Rank(ret.val.balances[i][1]) < Rank(ret.val.balances[j][1])
        /\ last # NoResult => ret = last

BiggestDividingPowDone == pc = "done" /\ call.fn = "biggest_dividing_pow"

\* the largest k such that 10^k divides v (v >= 1)
LargestPow10(v) == CHOOSE k \in 0..8 : v % (10 ^ k) = 0 /\ v % (10 ^ (k + 1)) # 0

\* C10: biggest_dividing_pow(v) returns for every v, without an overflow of
\* its power of ten or its counter; for v >= 1 it returns the largest k such
\* that 10^k divides v. And in a report, the precision finding is emitted
\* iff the highest and lowest of these exponents of the outputs are 3 or
\* more apart.
C10_BiggestDividingPowTotal ==
    /\ BiggestDividingPowDone =>
          /\ ret.tag = "Ok"
          /\ ~ret.wrapped
          /\ call.num >= 1 => ret.val = LargestPow10(call.num)
    /\ (PrettyPrintDone /\ ret.tag = "Ok") =>
          (Emitted(INFO_PRECISION)
             <=> \E i, j \in 1..NumOutputs :
                    LargestPow10(call.psbt.tx.output[i].value)
                      - LargestPow10(call.psbt.tx.output[j].value) >= 3)

====
